---- MODULE Spec2Model ----
(***************************************************************************)
(* Model of m_ber.c: photon-timestamp histogram, densest-window search,    *)
(* tri-partition sums, guard-banded recomputation and guard-band sweep.    *)
(*                                                                         *)
(* The time axis is scaled: the source keeps one histogram bin per         *)
(* picosecond, 1000 bins per 1 ns slot; the model keeps NS_BINS bins per   *)
(* slot and derives every length of the source from it in the source's     *)
(* proportions (32 slots per period, 3 slots per analysis window, guard    *)
(* bands of 1/10 .. 3/10 of a slot).                                       *)
(***************************************************************************)
EXTENDS Integers, Sequences, FiniteSets, TLC

VARIABLES
  pc,               \* position in main / in the unit driver
  histogram,        \* int histogram[size]
  size,             \* argument `size` of find_max_sum_window
  window_size,      \* argument `window_size` of both window functions
  rows,             \* number of rows fscanf has parsed so far
  timestamp,        \* process_csv: last value stored by fscanf
  mod_timestamp,    \* process_csv: last bin index computed
  start_index,      \* main: value returned by find_max_sum_window
  sums1,            \* find_max_sum_window: its locals C1, D1, C2
  BER1, V1,         \* main: outputs of find_max_sum_window
  applied,          \* frame of the latest apply_guard_bands_and_calculate call
  BER2, V2,         \* main: outputs of apply_guard_bands_and_calculate
  sweep             \* find_optimal_guard_bands: its locals

vars == <<pc, histogram, size, window_size, rows, timestamp, mod_timestamp,
          start_index, sums1, BER1, V1, applied, BER2, V2, sweep>>

---------------------------------------------------------------------------
(* Bounds of the model *)

NS_BINS == 20        \* bins per 1 ns slot
MaxRows == 3         \* data rows in the CSV file
MaxSize == 5         \* unit driver: longest histogram
MaxCount == 2        \* unit driver: largest bin count
MaxUnitGuard == 3    \* unit driver: widest guard band

(* Lengths of the source, in bins *)

WINDOW_SIZE == 32 * NS_BINS
ANALYSIS_WINDOW == 3 * NS_BINS
GUARD_BAND == NS_BINS \div 10
MAX_GUARD_BAND == (3 * NS_BINS) \div 10
MIN_GUARD_BAND == NS_BINS \div 10
GUARD_BAND_STEP == 1

INT_MAX == 2147483647
INT_MIN == (-INT_MAX) - 1

---------------------------------------------------------------------------
(* double values: exact ratios of small integers, infinity, NaN, and the   *)
(* indeterminate content of a double that was never assigned               *)

RECURSIVE GCD(_, _)
GCD(a, b) == IF b = 0 THEN a ELSE GCD(b, a % b)

NaN == [k |-> "nan", n |-> 0, d |-> 0]
Infinity == [k |-> "inf", n |-> 1, d |-> 0]
Unassigned == [k |-> "unassigned", n |-> 0, d |-> 0]
Finite(n, d) == [k |-> "fin", n |-> n \div GCD(n, d), d |-> d \div GCD(n, d)]

\* (double)n / d for non-negative int n, d (IEEE 754: x/0 = inf, 0/0 = NaN)
DoubleDiv(n, d) ==
  IF d # 0 THEN Finite(n, d)
  ELSE IF n > 0 THEN Infinity
  ELSE NaN

\* n / d on int operands, then converted to double; d = 0 is undefined
\* behaviour: the build either traps (x86 SIGFPE) or yields 0 (AArch64 sdiv)
IntDivOutcomes(n, d) ==
  IF d # 0 THEN {[trap |-> FALSE, v |-> Finite(n \div d, 1)]}
  ELSE {[trap |-> TRUE, v |-> Unassigned], [trap |-> FALSE, v |-> Finite(0, 1)]}

\* a < b on doubles; every comparison with NaN is false
DoubleLess(a, b) ==
  /\ a.k \in {"fin", "inf"}
  /\ b.k \in {"fin", "inf"}
  /\ \/ a.k = "fin" /\ b.k = "inf"
     \/ a.k = "fin" /\ b.k = "fin" /\ a.n * b.d < b.n * a.d

IsNonFinite(a) == a.k \in {"inf", "nan"}

---------------------------------------------------------------------------
(* Timestamps read by fscanf("%lf"): sign * (q * 2^31 + r + half/2)        *)

Ts(sign, q, r, half) == [sign |-> sign, q |-> q, r |-> r, half |-> half]

\* (int)(timestamp): truncation toward zero; a value outside the range of
\* int is undefined behaviour (x86 cvttsd2si gives INT_MIN, AArch64 saturates)
IntCastOutcomes(t) ==
  IF t.q = 0 THEN {t.sign * t.r}
  ELSE IF t.sign = 1 THEN {INT_MIN, INT_MAX}
  ELSE {INT_MIN}

\* a % b of C99 for b > 0: the result has the sign of the dividend
CRem(a, b) ==
  IF a >= 0 THEN a % b
  ELSE IF a % b = 0 THEN 0
  ELSE (a % b) - b

ModTimestampOutcomes(t) == {CRem(v, WINDOW_SIZE) : v \in IntCastOutcomes(t)}

\* The rows a file can hold: whole and fractional picoseconds, a timestamp
\* past the first period, a negative one, and one later than 2^31 ps (2.1 ms)
Timestamps ==
  { Ts(1, 0, 0, 0),
    Ts(1, 0, NS_BINS, 0),
    Ts(1, 0, NS_BINS + (NS_BINS \div 2), 1),
    Ts(1, 0, WINDOW_SIZE + (2 * NS_BINS) - 1, 0),
    Ts(1, 0, (3 * NS_BINS) + (NS_BINS \div 2), 0),
    Ts(-1, 0, 1, 0),
    Ts(1, 1, 5, 0) }

---------------------------------------------------------------------------
(* Loops.  A loop is run by halving its iteration budget: the first half   *)
(* of the iterations runs, the loop condition is tested on the state it    *)
(* leaves, and the second half runs from that state.  The iterations and   *)
(* their order are those of the for statement.                             *)

\* find_max_sum_window: sum of the first window
FirstWindowBody(h, st) ==
  [i |-> st.i + 1, current_sum |-> st.current_sum + h[st.i]]

RECURSIVE FirstWindowLoop(_, _, _, _)
FirstWindowLoop(h, w, st, budget) ==
  IF budget <= 1
  THEN IF budget = 1 /\ st.i < w THEN FirstWindowBody(h, st) ELSE st
  ELSE LET sofar == FirstWindowLoop(h, w, st, budget \div 2)
       IN IF sofar.i < w
          THEN FirstWindowLoop(h, w, sofar, budget - (budget \div 2))
          ELSE sofar

SumExceedsLatest(current_sum, max_sum) == current_sum >= max_sum

\* find_max_sum_window: the test that replaces the best window
SumExceeds(current_sum, max_sum) == current_sum > max_sum

\* find_max_sum_window: slide the window by one bin
SlideBody(h, w, st) ==
  LET current_sum == st.current_sum + h[st.i] - h[st.i - w]
  IN IF SumExceeds(current_sum, st.max_sum)
     THEN [i |-> st.i + 1, current_sum |-> current_sum,
           max_sum |-> current_sum, start_index |-> st.i - w + 1]
     ELSE [i |-> st.i + 1, current_sum |-> current_sum,
           max_sum |-> st.max_sum, start_index |-> st.start_index]

RECURSIVE SlideLoop(_, _, _, _, _)
SlideLoop(h, n, w, st, budget) ==
  IF budget <= 1
  THEN IF budget = 1 /\ st.i < n THEN SlideBody(h, w, st) ELSE st
  ELSE LET sofar == SlideLoop(h, n, w, st, budget \div 2)
       IN IF sofar.i < n
          THEN SlideLoop(h, n, w, sofar, budget - (budget \div 2))
          ELSE sofar

PartOfInclusive(i, s, part_size) ==
  IF i <= s + part_size THEN "C1"
  ELSE IF i <= s + 2 * part_size THEN "D1"
  ELSE "C2"

\* find_max_sum_window: the part of the window bin i is accumulated into
PartOf(i, s, part_size) ==
  IF i < s + part_size THEN "C1"
  ELSE IF i < s + 2 * part_size THEN "D1"
  ELSE "C2"

\* find_max_sum_window: accumulate one bin of the window
PartitionBody(h, s, part_size, st) ==
  LET part == PartOf(st.i, s, part_size)
  IN [i |-> st.i + 1,
      C1 |-> IF part = "C1" THEN st.C1 + h[st.i] ELSE st.C1,
      D1 |-> IF part = "D1" THEN st.D1 + h[st.i] ELSE st.D1,
      C2 |-> IF part = "C2" THEN st.C2 + h[st.i] ELSE st.C2]

RECURSIVE PartitionLoop(_, _, _, _, _)
PartitionLoop(h, s, w, st, budget) ==
  IF budget <= 1
  THEN IF budget = 1 /\ st.i < s + w
       THEN PartitionBody(h, s, w \div 3, st) ELSE st
  ELSE LET sofar == PartitionLoop(h, s, w, st, budget \div 2)
       IN IF sofar.i < s + w
          THEN PartitionLoop(h, s, w, sofar, budget - (budget \div 2))
          ELSE sofar

\* double find_max_sum_window(histogram, size, window_size, &BER1, &V1)
find_max_sum_window(h, n, w) ==
  IF w > n
  THEN [ret |-> -1, assigned |-> FALSE, C1 |-> 0, D1 |-> 0, C2 |-> 0,
        BER1 |-> Unassigned, V1 |-> Unassigned]
  ELSE LET first == FirstWindowLoop(h, w, [i |-> 0, current_sum |-> 0], w)
           slid == SlideLoop(h, n, w,
                     [i |-> w, current_sum |-> first.current_sum,
                      max_sum |-> first.current_sum, start_index |-> 0],
                     n - w)
           s == slid.start_index
           p == PartitionLoop(h, s, w,
                     [i |-> s, C1 |-> 0, D1 |-> 0, C2 |-> 0], w)
       IN [ret |-> s, assigned |-> TRUE, C1 |-> p.C1, D1 |-> p.D1, C2 |-> p.C2,
           BER1 |-> DoubleDiv(p.D1, p.C1 + p.D1 + p.C2),
           V1 |-> DoubleDiv(p.C1 + p.C2, p.D1)]

HalfGuardBandRemainder(guard_band) == guard_band % 2

\* apply_guard_bands_and_calculate: int half_guard_band = (int)guard_band / 2
half_guard_band(guard_band) == guard_band \div 2

\* apply_guard_bands_and_calculate: the three tests that `continue`
SkipsBin(i, last_bin_index, half) ==
  \/ i = 0 /\ (i % NS_BINS) > (NS_BINS - half)
  \/ i = last_bin_index /\ (i % NS_BINS) < half
  \/ (i % NS_BINS) < half \/ (i % NS_BINS) > (NS_BINS - half)

\* apply_guard_bands_and_calculate: the part a counted bin is accumulated into
GuardPartOf(i, s, part_size) ==
  IF i < s + part_size THEN "C1"
  ELSE IF i < s + 2 * part_size THEN "D1"
  ELSE "C2"

\* apply_guard_bands_and_calculate: one iteration over the window
GuardBody(h, s, w, g, st) ==
  LET last_bin_index == s + w - 1
      part == GuardPartOf(st.i, s, w \div 3)
  IN IF SkipsBin(st.i, last_bin_index, half_guard_band(g))
     THEN [i |-> st.i + 1, C1 |-> st.C1, D1 |-> st.D1, C2 |-> st.C2,
           skipped |-> st.skipped \cup {st.i}]
     ELSE [i |-> st.i + 1,
           C1 |-> IF part = "C1" THEN st.C1 + h[st.i] ELSE st.C1,
           D1 |-> IF part = "D1" THEN st.D1 + h[st.i] ELSE st.D1,
           C2 |-> IF part = "C2" THEN st.C2 + h[st.i] ELSE st.C2,
           skipped |-> st.skipped]

RECURSIVE GuardLoop(_, _, _, _, _, _)
GuardLoop(h, s, w, g, st, budget) ==
  IF budget <= 1
  THEN IF budget = 1 /\ st.i <= s + w - 1 THEN GuardBody(h, s, w, g, st) ELSE st
  ELSE LET sofar == GuardLoop(h, s, w, g, st, budget \div 2)
       IN IF sofar.i <= s + w - 1
          THEN GuardLoop(h, s, w, g, sofar, budget - (budget \div 2))
          ELSE sofar

\* void apply_guard_bands_and_calculate(histogram, start_index, window_size,
\*                                      &BER2, &V2, guard_band):
\* the frames the call can end in, one per outcome of the int division
apply_guard_bands_and_calculate(h, s, w, g) ==
  LET st == GuardLoop(h, s, w, g,
              [i |-> s, C1 |-> 0, D1 |-> 0, C2 |-> 0, skipped |-> {}], w)
  IN { [guard_band |-> g, start |-> s, width |-> w,
        C1 |-> st.C1, D1 |-> st.D1, C2 |-> st.C2, skipped |-> st.skipped,
        BER |-> DoubleDiv(st.D1, st.C1 + st.D1 + st.C2),
        V |-> o.v, trap |-> o.trap] : o \in IntDivOutcomes(st.C1 + st.C2, st.D1) }

\* find_optimal_guard_bands: the locals before the loop
SweepStart ==
  [guard_band |-> MIN_GUARD_BAND,
   min_BER |-> Finite(1, 1), max_visibility |-> Finite(0, 1),
   optimal_BER_guard_band |-> 0, optimal_visibility_guard_band |-> 0]

\* find_optimal_guard_bands: the two updates of one loop iteration
SweepUpdate(sw, o) ==
  [guard_band |-> sw.guard_band + GUARD_BAND_STEP,
   min_BER |-> IF DoubleLess(o.BER, sw.min_BER) THEN o.BER ELSE sw.min_BER,
   optimal_BER_guard_band |->
     IF DoubleLess(o.BER, sw.min_BER) THEN sw.guard_band
     ELSE sw.optimal_BER_guard_band,
   max_visibility |->
     IF DoubleLess(sw.max_visibility, o.V) THEN o.V ELSE sw.max_visibility,
   optimal_visibility_guard_band |->
     IF DoubleLess(sw.max_visibility, o.V) THEN sw.guard_band
     ELSE sw.optimal_visibility_guard_band]

---------------------------------------------------------------------------
(* The program: main and the functions it calls *)

NoSums == [C1 |-> 0, D1 |-> 0, C2 |-> 0]
NoCall ==
  [guard_band |-> -1, start |-> 0, width |-> 0, C1 |-> 0, D1 |-> 0, C2 |-> 0,
   skipped |-> {}, BER |-> Unassigned, V |-> Unassigned, trap |-> FALSE]

\* main up to the fscanf loop: the histogram has been zeroed
Init ==
  /\ pc = "read"
  /\ histogram = [i \in 0 .. WINDOW_SIZE - 1 |-> 0]
  /\ size = WINDOW_SIZE
  /\ window_size = ANALYSIS_WINDOW
  /\ rows = 0
  /\ timestamp = Ts(1, 0, 0, 0)
  /\ mod_timestamp = 0
  /\ start_index = 0
  /\ sums1 = NoSums
  /\ BER1 = Unassigned /\ V1 = Unassigned
  /\ applied = NoCall
  /\ BER2 = Unassigned /\ V2 = Unassigned
  /\ sweep = SweepStart

\* process_csv_and_create_histogram: fscanf parses a row and the bin
\* index lies inside the array
ReadRow ==
  /\ pc = "read"
  /\ rows < MaxRows
  /\ \E t \in Timestamps : \E m \in ModTimestampOutcomes(t) :
       /\ m \in 0 .. WINDOW_SIZE - 1
       /\ timestamp' = t
       /\ mod_timestamp' = m
       /\ histogram' = [histogram EXCEPT ![m] = @ + 1]
  /\ rows' = rows + 1
  /\ UNCHANGED <<pc, size, window_size, start_index, sums1, BER1, V1,
                 applied, BER2, V2, sweep>>

\* process_csv_and_create_histogram: fscanf parses a row and the bin index
\* is negative: histogram[mod_timestamp]++ writes below the array, which
\* either faults or lands in other memory and leaves every bin as it was
ReadRowOutOfBounds ==
  /\ pc = "read"
  /\ rows < MaxRows
  /\ \E t \in Timestamps : \E m \in ModTimestampOutcomes(t) :
       /\ m \notin 0 .. WINDOW_SIZE - 1
       /\ timestamp' = t
       /\ mod_timestamp' = m
  /\ \E faults \in BOOLEAN : pc' = IF faults THEN "segfault" ELSE "read"
  /\ rows' = rows + 1
  /\ UNCHANGED <<histogram, size, window_size, start_index, sums1, BER1, V1,
                 applied, BER2, V2, sweep>>

\* process_csv_and_create_histogram: fscanf does not return 2; fclose, return
EndOfData ==
  /\ pc = "read"
  /\ pc' = "locate"
  /\ UNCHANGED <<histogram, size, window_size, rows, timestamp, mod_timestamp,
                 start_index, sums1, BER1, V1, applied, BER2, V2, sweep>>

\* main: start_index = find_max_sum_window(histogram, WINDOW_SIZE, 3000, ..)
FindMaxSumWindow ==
  /\ pc = "locate"
  /\ LET r == find_max_sum_window(histogram, size, window_size)
     IN /\ start_index' = r.ret
        /\ sums1' = [C1 |-> r.C1, D1 |-> r.D1, C2 |-> r.C2]
        /\ BER1' = r.BER1
        /\ V1' = r.V1
  /\ pc' = "guard"
  /\ UNCHANGED <<histogram, size, window_size, rows, timestamp, mod_timestamp,
                 applied, BER2, V2, sweep>>

\* main: apply_guard_bands_and_calculate(.., GUARD_BAND), then the printf
ApplyGuardBands ==
  /\ pc = "guard"
  /\ \E o \in apply_guard_bands_and_calculate(histogram, start_index,
                                               window_size, GUARD_BAND) :
       /\ applied' = o
       /\ BER2' = o.BER
       /\ V2' = IF o.trap THEN V2 ELSE o.V
       /\ pc' = IF o.trap THEN "sigfpe" ELSE "printed"
  /\ UNCHANGED <<histogram, size, window_size, rows, timestamp, mod_timestamp,
                 start_index, sums1, BER1, V1, sweep>>

\* main with the optional call enabled: find_optimal_guard_bands starts
StartSweep ==
  /\ pc = "printed"
  /\ sweep' = SweepStart
  /\ pc' = "sweep"
  /\ UNCHANGED <<histogram, size, window_size, rows, timestamp, mod_timestamp,
                 start_index, sums1, BER1, V1, applied, BER2, V2>>

\* find_optimal_guard_bands: one iteration of the loop
SweepStep ==
  /\ pc = "sweep"
  /\ sweep.guard_band <= MAX_GUARD_BAND
  /\ \E o \in apply_guard_bands_and_calculate(histogram, start_index,
                                               window_size, sweep.guard_band) :
       /\ applied' = o
       /\ sweep' = IF o.trap THEN sweep ELSE SweepUpdate(sweep, o)
       /\ pc' = IF o.trap THEN "sigfpe" ELSE "sweep"
  /\ UNCHANGED <<histogram, size, window_size, rows, timestamp, mod_timestamp,
                 start_index, sums1, BER1, V1, BER2, V2>>

\* find_optimal_guard_bands: the loop ends and the two lines are printed
SweepReport ==
  /\ pc = "sweep"
  /\ sweep.guard_band > MAX_GUARD_BAND
  /\ pc' = "swept"
  /\ UNCHANGED <<histogram, size, window_size, rows, timestamp, mod_timestamp,
                 start_index, sums1, BER1, V1, applied, BER2, V2, sweep>>

Next ==
  \/ ReadRow
  \/ ReadRowOutOfBounds
  \/ EndOfData
  \/ FindMaxSumWindow
  \/ ApplyGuardBands
  \/ StartSweep
  \/ SweepStep
  \/ SweepReport

Spec == Init /\ [][Next]_vars

---------------------------------------------------------------------------
(* Unit driver: the two window functions on every small histogram, every   *)
(* window width and every small guard band                                 *)

UnitInit ==
  /\ pc = "unit"
  /\ size \in 1 .. MaxSize
  /\ histogram \in [0 .. size - 1 -> 0 .. MaxCount]
  /\ window_size = 0
  /\ rows = 0
  /\ timestamp = Ts(1, 0, 0, 0)
  /\ mod_timestamp = 0
  /\ start_index = 0
  /\ sums1 = NoSums
  /\ BER1 = Unassigned /\ V1 = Unassigned
  /\ applied = NoCall
  /\ BER2 = Unassigned /\ V2 = Unassigned
  /\ sweep = SweepStart

\* find_max_sum_window(histogram, size, w, &BER1, &V1)
UnitFind ==
  /\ pc = "unit"
  /\ \E w \in 1 .. size + 1 :
       LET r == find_max_sum_window(histogram, size, w)
       IN /\ window_size' = w
          /\ start_index' = r.ret
          /\ sums1' = [C1 |-> r.C1, D1 |-> r.D1, C2 |-> r.C2]
          /\ BER1' = r.BER1
          /\ V1' = r.V1
          /\ pc' = IF r.assigned THEN "unit_located" ELSE "unit_rejected"
  /\ UNCHANGED <<histogram, size, rows, timestamp, mod_timestamp,
                 applied, BER2, V2, sweep>>

\* apply_guard_bands_and_calculate(histogram, start_index, window_size, .., g)
UnitApply ==
  /\ pc = "unit_located"
  /\ \E g \in 0 .. MaxUnitGuard :
       \E o \in apply_guard_bands_and_calculate(histogram, start_index,
                                                 window_size, g) :
         /\ applied' = o
         /\ BER2' = o.BER
         /\ V2' = IF o.trap THEN V2 ELSE o.V
         /\ pc' = IF o.trap THEN "sigfpe" ELSE "unit_applied"
  /\ UNCHANGED <<histogram, size, window_size, rows, timestamp, mod_timestamp,
                 start_index, sums1, BER1, V1, sweep>>

UnitNext ==
  \/ UnitFind
  \/ UnitApply

UnitSpec == UnitInit /\ [][UnitNext]_vars

---------------------------------------------------------------------------
(* Reference quantities the properties are stated in *)

\* sum of h[lo] .. h[hi]
RECURSIVE RangeSum(_, _, _)
RangeSum(h, lo, hi) ==
  IF lo > hi THEN 0
  ELSE IF lo = hi THEN h[lo]
  ELSE RangeSum(h, lo, (lo + hi) \div 2) + RangeSum(h, ((lo + hi) \div 2) + 1, hi)

WindowSum(h, s, w) == RangeSum(h, s, s + w - 1)

\* trunc(t) mod WINDOW_SIZE of the mathematical integers, in 0 .. WINDOW_SIZE-1
TwoPow31ModWindow == ((INT_MAX % WINDOW_SIZE) + 1) % WINDOW_SIZE
Fold(t) ==
  LET m == ((t.q * TwoPow31ModWindow) + t.r) % WINDOW_SIZE
  IN IF t.sign = 1 THEN m ELSE (WINDOW_SIZE - m) % WINDOW_SIZE

Located == pc \in {"unit_located", "unit_applied"}
GuardCalled == applied.guard_band >= 0
Total1 == sums1.C1 + sums1.D1 + sums1.C2
Total2 == applied.C1 + applied.D1 + applied.C2

\* the frame a call with guard band g on the state's window ends in; the
\* partition sums and the skipped bins are the same in every outcome
FrameAt(g) ==
  CHOOSE o \in apply_guard_bands_and_calculate(histogram, applied.start,
                                               applied.width, g) : ~o.trap

\* guard bands from none to one that excludes every offset of a slot
GuardProbes == 0 .. NS_BINS + 3

\* F maps guard bands to frames: the wider band excludes at least the bins of
\* the narrower one and counts no more in any part; the state's own call is
\* the frame of its guard band
MonotoneFrames(F) ==
  /\ \A g1 \in DOMAIN F : \A g2 \in DOMAIN F :
       g1 <= g2 =>
         /\ F[g1].skipped \subseteq F[g2].skipped
         /\ F[g2].C1 <= F[g1].C1
         /\ F[g2].D1 <= F[g1].D1
         /\ F[g2].C2 <= F[g1].C2
  /\ \A g \in DOMAIN F :
       g = applied.guard_band => F[g].skipped = applied.skipped

\* F maps the swept guard bands to frames, b and v are the reported widths
ReportsOptimum(F, b, v) ==
  /\ b \in DOMAIN F
  /\ v \in DOMAIN F
  /\ sweep.min_BER = F[b].BER
  /\ sweep.max_visibility = F[v].V
  /\ \A g \in DOMAIN F :
       /\ ~DoubleLess(F[g].BER, sweep.min_BER)
       /\ ~DoubleLess(sweep.max_visibility, F[g].V)
       /\ g < b => F[g].BER # sweep.min_BER
       /\ g < v => F[g].V # sweep.max_visibility
SweepRange ==
  {g \in MIN_GUARD_BAND .. MAX_GUARD_BAND : (g - MIN_GUARD_BAND) % GUARD_BAND_STEP = 0}

---------------------------------------------------------------------------
(* Properties *)

\* C1: for 1 <= W <= S, find_max_sum_window returns the smallest start index
\* in 0..S-W whose window sum is the maximum over all start indices 0..S-W
\* (ties keep the earliest start); if exactly one bin i is non-zero, the
\* returned s satisfies s <= i < s+W.
C1_EarliestMaxWindow ==
  Located =>
    /\ start_index \in 0 .. size - window_size
    /\ \A s \in 0 .. size - window_size :
         /\ WindowSum(histogram, s, window_size)
              <= WindowSum(histogram, start_index, window_size)
         /\ s < start_index =>
              WindowSum(histogram, s, window_size)
                < WindowSum(histogram, start_index, window_size)
    /\ \A i \in 0 .. size - 1 :
         (histogram[i] # 0 /\ \A j \in 0 .. size - 1 : j # i => histogram[j] = 0)
           => (start_index <= i /\ i < start_index + window_size)

\* C1 witness: a later window ties with the window that was returned, and the
\* returned window is not the first one
C1_Witness ==
  /\ pc = "unit_located"
  /\ start_index > 0
  /\ \E s \in start_index + 1 .. size - window_size :
       WindowSum(histogram, s, window_size)
         = WindowSum(histogram, start_index, window_size)

\* C3: without a guard band the three partition sums are C1 = sum of bins
\* [start, start+W/3), D1 = sum of bins [start+W/3, start+2*(W/3)), C2 = sum
\* of the remaining bins up to start+W (remainder bins go to the third part),
\* so C1 + D1 + C2 is the sum of all bins in [start, start+W).
C3_PartitionSums ==
  Located =>
    LET s == start_index
        p == window_size \div 3
    IN /\ sums1.C1 = RangeSum(histogram, s, s + p - 1)
       /\ sums1.D1 = RangeSum(histogram, s + p, s + (2 * p) - 1)
       /\ sums1.C2 = RangeSum(histogram, s + (2 * p), s + window_size - 1)
       /\ Total1 = WindowSum(histogram, s, window_size)

\* C3 witness: a width not divisible by 3 whose remainder bin holds counts,
\* with counts in the first two parts as well
C3_Witness ==
  /\ pc = "unit_located"
  /\ window_size > 3
  /\ window_size % 3 # 0
  /\ histogram[start_index + window_size - 1] > 0
  /\ sums1.C1 > 0
  /\ sums1.D1 > 0
  /\ sums1.C2 > histogram[start_index + window_size - 1]

\* C5: for a fixed histogram, start index and width, every bin excluded at
\* guard band g1 is excluded at every g2 >= g1, and C1, D1 and C2 at g2 are
\* no larger than at g1.
C5_GuardMonotone ==
  GuardCalled => MonotoneFrames([g \in GuardProbes |-> FrameAt(g)])

\* C5 witness: a sweep call wider than the default band has dropped counts
\* that the unguarded sums hold, and still counts some
C5_Witness ==
  /\ pc = "sweep"
  /\ applied.guard_band > GUARD_BAND + 1
  /\ Total2 < Total1
  /\ applied.D1 > 0
  /\ applied.D1 < sums1.D1

\* C2: every ingested timestamp t increments exactly one bin, whose index is
\* trunc(t) mod WINDOW_SIZE and lies in [0, WINDOW_SIZE); after N parsed rows
\* every bin is non-negative and the bins sum to N.
C2_FoldedBinAndTotal ==
  /\ rows > 0 =>
       /\ mod_timestamp \in 0 .. WINDOW_SIZE - 1
       /\ mod_timestamp = Fold(timestamp)
  /\ \A i \in DOMAIN histogram : histogram[i] >= 0
  /\ RangeSum(histogram, 0, size - 1) = rows

\* C4: with guard band 0 the guard-band path yields the partition sums of the
\* no-guard-band path and the same metrics: BER2 = BER1 and V2 = V1.  Stated
\* for the windows whose D1 is not zero, where both divisions are defined.
C4_ZeroGuardSameMetrics ==
  (pc = "unit_applied" /\ applied.guard_band = 0 /\ sums1.D1 # 0) =>
    /\ applied.C1 = sums1.C1
    /\ applied.D1 = sums1.D1
    /\ applied.C2 = sums1.C2
    /\ BER2 = BER1
    /\ V2 = V1

\* C6: when a metric denominator is zero (D1 = 0, or C1 + D1 + C2 = 0) both
\* metric computations complete and the affected metric is infinity or NaN;
\* neither path traps on the division.
C6_ZeroDenominatorNonFinite ==
  /\ pc # "sigfpe"
  /\ (pc \notin {"read", "locate", "segfault"} /\ sums1.D1 = 0) => IsNonFinite(V1)
  /\ (pc \notin {"read", "locate", "segfault"} /\ Total1 = 0) => IsNonFinite(BER1)
  /\ (GuardCalled /\ applied.D1 = 0) => IsNonFinite(applied.V)
  /\ (GuardCalled /\ Total2 = 0) => IsNonFinite(applied.BER)

\* C7: the sweep reports as optimal BER width the first g of the sweep whose
\* BER is the lowest of the sweep and as optimal Visibility width the first g
\* whose Visibility is the highest; each reported width is a member of the
\* swept range and each reported value is the one computed at that width.
\* Stated for the sweeps whose widest band still leaves D1 non-zero, so that
\* every division of the sweep is defined.
C7_SweepReportsOptimum ==
  (pc = "swept" /\ applied.D1 # 0) =>
    ReportsOptimum([g \in SweepRange |-> FrameAt(g)],
                   sweep.optimal_BER_guard_band,
                   sweep.optimal_visibility_guard_band)

\* C8: with an active guard band g and h = g/2, a window bin that is not an
\* edge bin (absolute index 0, last bin of the window) is excluded exactly
\* when its offset in its slot is in 0..h-1 or in the last h offsets of the
\* slot; every other bin is counted in exactly one of C1, D1, C2.
C8_ExcludedOffsets ==
  (GuardCalled /\ applied.guard_band > 0) =>
    LET h == applied.guard_band \div 2
        s == applied.start
        last == applied.start + applied.width - 1
        counted == [i \in s .. last |->
                      IF i \in applied.skipped THEN 0 ELSE histogram[i]]
    IN /\ \A i \in s .. last :
            (i # 0 /\ i # last) =>
              (i \in applied.skipped <=>
                 ((i % NS_BINS) < h \/ (i % NS_BINS) >= NS_BINS - h))
       /\ Total2 = RangeSum(counted, s, last)

\* C9: for every window start returned by the locator and every g >= 2, each
\* bin closer than g/2 to an internal partition boundary (start + W/3 or
\* start + 2*(W/3)) is excluded from C1, D1 and C2.
C9_GuardAroundPartitionBoundaries ==
  (GuardCalled /\ applied.guard_band >= 2) =>
    LET h == applied.guard_band \div 2
        p == applied.width \div 3
    IN \A b \in {applied.start + p, applied.start + (2 * p)} :
         \A i \in (b - h) + 1 .. (b + h) - 1 : i \in applied.skipped

\* C10: when the window contains absolute index 0, that bin is excluded only
\* if its offset lies in the trailing h offsets of its slot; the last bin of
\* the window is excluded only if its offset lies in the leading h offsets.
C10_EdgeOverride ==
  GuardCalled =>
    LET h == applied.guard_band \div 2
        last == applied.start + applied.width - 1
    IN /\ (applied.start = 0 /\ 0 \in applied.skipped) =>
            (0 % NS_BINS) >= NS_BINS - h
       /\ (last \in applied.skipped) => (last % NS_BINS) < h

====
